---------------------------- MODULE Spec2Model ----------------------------
(***************************************************************************)
(* A model of the SHLang lexical scanner (src/utils/scanner.py) and of its *)
(* error type (src/utils/error.py).                                        *)
(*                                                                         *)
(* Representation.  A Python str is a sequence of one-character atoms      *)
(* (<<"1", ">", "2">> is "1>2").  Fixed texts that the code only ever      *)
(* concatenates ("Error: ", "-- Here.", "Unterminated string.") are kept   *)
(* as single atoms.  Python's None is the empty tuple and a present value  *)
(* v is <<v>>, so that None, "" and 0 stay three different things.         *)
(* Python's offset n (0-based) is the TLA+ index n + 1.                    *)
(*                                                                         *)
(* The model is of the methods as they run once the module is loaded.      *)
(* scanner.py names Optional, List and Dict in annotations without         *)
(* importing them, so on an interpreter that evaluates annotations         *)
(* eagerly the import itself fails; that is outside the model.             *)
(***************************************************************************)
EXTENDS Integers, Sequences, FiniteSets, TLC

VARIABLES
    input,      \* the source texts the caller still has to hand to scan_tokens
    pc,         \* "idle" | "scanning" | "returned" | "raised" | "rendered"
    source,     \* Scanner.source
    tokens,     \* Scanner.tokens
    current,    \* Scanner.current
    start,      \* Scanner.start
    line,       \* Scanner.line
    column,     \* Scanner.column
    args,       \* arguments of the most recent SHLError(...) call, or None
    exc,        \* the exception that ended the call, or None
    rendered,   \* str(exc) once it has been taken, or None
    tokens_id,  \* identity of the list object Scanner.tokens is bound to
    results,    \* the lists scan_tokens has returned, as the caller holds them
    iterations  \* iterations of the loop of scan_tokens in the current call

vars == <<input, pc, source, tokens, current, start, line, column, args, exc, rendered,
          tokens_id, results, iterations>>

None == <<>>
Some(v) == <<v>>
Get(o) == o[1]

(***************************************************************************)
(* Bounds of the model.                                                    *)
(***************************************************************************)
MaxLen == 4
MaxLenOps == 5
MaxLenWs == 5
MaxLenStr == 5
MaxLenNum == 5
MaxLenIdent == 4
MaxLine == 2
MaxCol == 2

MaxCalls == 3
MaxLenReuse == 2

MaxLenProgress == 3

(***************************************************************************)
(* Python str slicing and the built-in character predicates, over the      *)
(* characters the model uses.  "U+00B2" stands for the one character       *)
(* SUPERSCRIPT TWO, for which str.isdigit() is true and which float()      *)
(* rejects; "U+00E9" for LATIN SMALL LETTER E WITH ACUTE.                  *)
(***************************************************************************)
Slice(s, a, b) == SubSeq(s, a + 1, b)

NUL == "NUL"

DecimalDigits == {"0", "1", "2", "3", "4", "5", "6", "7", "8", "9"}

LowerLetters ==
    {"a", "b", "c", "d", "e", "f", "g", "h", "i", "j", "k", "l", "m",
     "n", "o", "p", "q", "r", "s", "t", "u", "v", "w", "x", "y", "z"}

UpperLetters ==
    {"A", "B", "C", "D", "E", "F", "G", "H", "I", "J", "K", "L", "M",
     "N", "O", "P", "Q", "R", "S", "T", "U", "V", "W", "X", "Y", "Z"}

isspace(c) == c \in {" ", "\t", "\n", "\r", "\f"}

isdigit(c) == c \in DecimalDigits \cup {"U+00B2"}

isalpha(c) == c \in LowerLetters \cup UpperLetters \cup {"U+00E9"}

isalnum(c) == isalpha(c) \/ isdigit(c)

LowerMap ==
    ("A" :> "a") @@ ("B" :> "b") @@ ("C" :> "c") @@ ("D" :> "d") @@
    ("E" :> "e") @@ ("F" :> "f") @@ ("G" :> "g") @@ ("H" :> "h") @@
    ("I" :> "i") @@ ("J" :> "j") @@ ("K" :> "k") @@ ("L" :> "l") @@
    ("M" :> "m") @@ ("N" :> "n") @@ ("O" :> "o") @@ ("P" :> "p") @@
    ("Q" :> "q") @@ ("R" :> "r") @@ ("S" :> "s") @@ ("T" :> "t") @@
    ("U" :> "u") @@ ("V" :> "v") @@ ("W" :> "w") @@ ("X" :> "x") @@
    ("Y" :> "y") @@ ("Z" :> "z")

\* a lower() that leaves the text as written
lower_no_fold(text) == text

lower(text) ==
    [i \in 1..Len(text) |->
        IF text[i] \in DOMAIN LowerMap THEN LowerMap[text[i]] ELSE text[i]]

(***************************************************************************)
(* float(text) for the texts number() builds: digits, or digits "." digits.*)
(* The value is mant / 10^exp with no trailing zero in the fraction, so    *)
(* "1.50" and "1.5" are the same value and "3" is 3.0.  The texts of the   *)
(* model have at most six digits; a 64-bit float keeps them apart.         *)
(* A character that is a digit for str.isdigit() but not a decimal digit   *)
(* makes float() raise ValueError.                                         *)
(***************************************************************************)
DigitVal ==
    ("0" :> 0) @@ ("1" :> 1) @@ ("2" :> 2) @@ ("3" :> 3) @@ ("4" :> 4) @@
    ("5" :> 5) @@ ("6" :> 6) @@ ("7" :> 7) @@ ("8" :> 8) @@ ("9" :> 9)

RECURSIVE DigitsToInt(_)
DigitsToInt(ds) ==
    IF ds = <<>> THEN 0
    ELSE 10 * DigitsToInt(SubSeq(ds, 1, Len(ds) - 1)) + DigitVal[ds[Len(ds)]]

RECURSIVE Normalize(_, _)
Normalize(mant, exp) ==
    IF exp > 0 /\ mant % 10 = 0 THEN Normalize(mant \div 10, exp - 1)
    ELSE [mant |-> mant, exp |-> exp]

float_ok(text) == \A i \in 1..Len(text) : text[i] \in DecimalDigits \cup {"."}

float(text) ==
    LET dots == {i \in 1..Len(text) : text[i] = "."}
        digits == SelectSeq(text, LAMBDA c : c # ".")
        exp == IF dots = {} THEN 0 ELSE Len(text) - (CHOOSE i \in dots : TRUE)
    IN  Normalize(DigitsToInt(digits), exp)

(***************************************************************************)
(* Token and the scanner's three tables.                                   *)
(***************************************************************************)
Token(type, lexeme, literal, ln, col_start, col_end) ==
    [type |-> type, lexeme |-> lexeme, literal |-> literal,
     line |-> ln, col_start |-> col_start, col_end |-> col_end]

keywords ==
    (<<"a", "n", "d">> :> "AND") @@
    (<<"o", "r">> :> "OR") @@
    (<<"i", "f">> :> "IF") @@
    (<<"e", "l", "s", "e">> :> "ELSE") @@
    (<<"t", "r", "u", "e">> :> "TRUE") @@
    (<<"f", "a", "l", "s", "e">> :> "FALSE") @@
    (<<"f", "o", "r">> :> "FOR") @@
    (<<"w", "h", "i", "l", "e">> :> "WHILE") @@
    (<<"f", "n">> :> "FN") @@
    (<<"r", "e", "t", "u", "r", "n">> :> "RETURN") @@
    (<<"v", "a", "r">> :> "VAR") @@
    (<<"i", "m", "p", "o", "r", "t">> :> "IMPORT") @@
    (<<"i", "n">> :> "IN") @@
    (<<"c", "l", "a", "s", "s">> :> "CLASS") @@
    (<<"n", "i", "l">> :> "NIL") @@
    (<<"d", "i", "s", "p", "l", "a", "y">> :> "DISPLAY") @@
    (<<"r", "e", "a", "d">> :> "READ")

single_char_tokens ==
    ("(" :> "LEFT_PAREN") @@ (")" :> "RIGHT_PAREN") @@
    ("{" :> "LEFT_BRACE") @@ ("}" :> "RIGHT_BRACE") @@
    ("[" :> "LEFT_BRACKET") @@ ("]" :> "RIGHT_BRACKET") @@
    ("," :> "COMMA") @@ ("." :> "DOT") @@ ("-" :> "MINUS") @@
    ("+" :> "PLUS") @@ (";" :> "SEMICOLON") @@ ("/" :> "SLASH") @@
    ("*" :> "STAR") @@ (":" :> "COLON") @@ ("=" :> "EQUAL") @@
    (">" :> "GREATER") @@ ("<" :> "LESS") @@ ("!" :> "BANG")

two_char_tokens ==
    (<<"!", "=">> :> "BANG_EQUAL") @@
    (<<"=", "=">> :> "EQUAL_EQUAL") @@
    (<<">", "=">> :> "GREATER_EQUAL") @@
    (<<"<", "=">> :> "LESS_EQUAL") @@
    (<<"=", ">">> :> "ARROW")

(***************************************************************************)
(* SHLError.  __init__ keeps the message and src_line as given, turns a    *)
(* missing line or col_start into 0, and defaults col_end to the col_start *)
(* argument (not to the stored col_start).  Every parameter is None or     *)
(* Some(value).                                                            *)
(***************************************************************************)
SHLError(message, file, ln, col_start, col_end, src_line) ==
    [type |-> "SHLError",
     message |-> message,
     file |-> file,
     line |-> IF ln # None THEN Get(ln) ELSE 0,
     col_start |-> IF col_start # None THEN Get(col_start) ELSE 0,
     col_end |-> IF col_end # None THEN col_end ELSE col_start,
     src_line |-> src_line]

CallArgs(message, file, ln, col_start, col_end, src_line) ==
    [message |-> message, file |-> file, line |-> ln,
     col_start |-> col_start, col_end |-> col_end, src_line |-> src_line]

ValueError == [type |-> "ValueError"]

(***************************************************************************)
(* The Scanner object as a value: the methods below take it and give the   *)
(* object after the call.  A method that can raise gives an outcome:       *)
(* the object as the raise left it, the exception (or None), and the       *)
(* arguments SHLError was called with (or None).                           *)
(***************************************************************************)
Self ==
    [source |-> source, tokens |-> tokens, current |-> current,
     start |-> start, line |-> line, column |-> column]

Ok(s) == [self |-> s, exc |-> None, args |-> None]

Raise(s, e, a) == [self |-> s, exc |-> Some(e), args |-> a]

is_at_end(s) == s.current >= Len(s.source)

advance(s) == [s EXCEPT !.current = @ + 1, !.column = @ + 1]

match(s, expected) ==
    IF is_at_end(s) THEN [ok |-> FALSE, self |-> s]
    ELSE IF s.source[s.current + 1] # expected THEN [ok |-> FALSE, self |-> s]
    ELSE [ok |-> TRUE, self |-> [s EXCEPT !.current = @ + 1, !.column = @ + 1]]

peek(s) == IF is_at_end(s) THEN NUL ELSE s.source[s.current + 1]

peek_next(s) ==
    IF s.current + 1 >= Len(s.source) THEN NUL ELSE s.source[s.current + 2]

\* an add_token that records the 1-based column counter, not the offsets
add_token_columns(s, token_type, literal) ==
    [s EXCEPT !.tokens =
        Append(@, Token(token_type, Slice(s.source, s.start, s.current), literal,
                        s.line, s.column - (s.current - s.start), s.column))]

add_token(s, token_type, literal) ==
    [s EXCEPT !.tokens =
        Append(@, Token(token_type, Slice(s.source, s.start, s.current), literal,
                        s.line, s.start, s.current))]

\* a '//' branch that leaves the comment's text to be scanned
skip_comment_none(s) == s

\* scan_token, the '//' branch: while peek() != '\n' and not at end: advance()
RECURSIVE skip_comment(_)
skip_comment(s) ==
    IF peek(s) # "\n" /\ ~is_at_end(s) THEN skip_comment(advance(s)) ELSE s

\* an operator branch that keeps the look-ahead character
rollback_none(s) == s

\* an operator branch that undoes the look-ahead and the operator itself
rollback_two(s) == [s EXCEPT !.current = @ - 2, !.column = @ - 2]

\* scan_token, the operator branch: undo the one-character look-ahead
rollback(s) == [s EXCEPT !.current = @ - 1, !.column = @ - 1]

\* a loop condition that stops at either quote character
string_body_any_quote(s, quote) ==
    peek(s) \notin {"\"", "'"} /\ ~is_at_end(s)

\* string(): the loop condition, peek() != quote and not at end
string_body(s, quote) == peek(s) # quote /\ ~is_at_end(s)

\* a loop in string() that does not count the newlines of the literal
RECURSIVE string_loop_one_line(_, _)
string_loop_one_line(s, quote) ==
    IF string_body(s, quote)
    THEN string_loop_one_line(advance(s), quote)
    ELSE s

RECURSIVE string_loop(_, _)
string_loop(s, quote) ==
    IF string_body(s, quote)
    THEN string_loop(
            advance(IF peek(s) = "\n"
                    THEN [s EXCEPT !.line = @ + 1, !.column = 1] ELSE s),
            quote)
    ELSE s

string(s0, quote) ==
    LET s == string_loop(s0, quote)
    IN  IF is_at_end(s)
        THEN Raise(s, SHLError(<<"Unterminated string.">>, None,
                               Some(s.line), Some(s.column), None, None),
                   CallArgs(<<"Unterminated string.">>, None,
                            Some(s.line), Some(s.column), None, None))
        ELSE LET s1 == advance(s)
                 value == Slice(s1.source, s1.start + 1, s1.current - 1)
             IN  Ok(add_token(s1, "STRING", Some(value)))

\* number(): while self.peek().isdigit(): self.advance()
RECURSIVE skip_digits(_)
skip_digits(s) == IF isdigit(peek(s)) THEN skip_digits(advance(s)) ELSE s

\* a fraction test that does not look past the '.'
number_has_fraction_any(s) == peek(s) = "."

\* number(), line 270: if self.peek() == '.' and self.peek_next().isdigit()
number_has_fraction(s) == peek(s) = "." /\ isdigit(peek_next(s))

number(s0) ==
    LET s1 == skip_digits(s0)
        s2 == IF number_has_fraction(s1)
              THEN skip_digits(advance(s1)) ELSE s1
        text == Slice(s2.source, s2.start, s2.current)
    IN  IF float_ok(text)
        THEN Ok(add_token(s2, "NUMBER", Some(float(text))))
        ELSE Raise(s2, ValueError, None)

\* identifier(): while self.peek().isalnum() or self.peek() == '_': advance()
RECURSIVE skip_alnum(_)
skip_alnum(s) ==
    IF isalnum(peek(s)) \/ peek(s) = "_" THEN skip_alnum(advance(s)) ELSE s

identifier(s0) ==
    LET s == skip_alnum(s0)
        text == Slice(s.source, s.start, s.current)
        key == lower(text)
        token_type == IF key \in DOMAIN keywords THEN keywords[key] ELSE "IDENTIFIER"
    IN  add_token(s, token_type, None)

scan_token(s0) ==
    LET c == s0.source[s0.current + 1]
        s == advance(s0)
        m == match(s, "/")
    IN  IF isspace(c)
        THEN Ok(IF c = "\n" THEN [s EXCEPT !.line = @ + 1, !.column = 1] ELSE s)
        ELSE IF c = "/" /\ m.ok
        THEN Ok(skip_comment(m.self))
        ELSE IF c \in DOMAIN single_char_tokens
        THEN IF c \in {"!", "=", ">", "<"} /\ peek(s) \in {"=", ">"}
             THEN LET next_char == s.source[s.current + 1]
                      s1 == advance(s)
                      two_char == <<c, next_char>>
                  IN  IF two_char \in DOMAIN two_char_tokens
                      THEN Ok(add_token(s1, two_char_tokens[two_char], None))
                      ELSE Ok(add_token(rollback(s1), single_char_tokens[c], None))
             ELSE Ok(add_token(s, single_char_tokens[c], None))
        ELSE IF c = "\"" \/ c = "'"
        THEN string(s, c)
        ELSE IF isdigit(c)
        THEN number(s)
        ELSE IF isalpha(c) \/ c = "_"
        THEN Ok(identifier(s))
        ELSE Raise(s, SHLError(<<"Unexpected character: '", c, "'">>, None,
                               Some(s.line), Some(s.column - 1), None, None),
                   CallArgs(<<"Unexpected character: '", c, "'">>, None,
                            Some(s.line), Some(s.column - 1), None, None))

eof_token(s) == Token("EOF", <<>>, None, s.line, s.column, s.column)


(***************************************************************************)
(* SHLError.__str__.  The "{line} | " prefix and the pointer line are      *)
(* built character by character, so a position in them is an index.        *)
(***************************************************************************)
RECURSIVE str_int(_)
str_int(n) ==
    IF n < 10 THEN <<CHOOSE d \in DOMAIN DigitVal : DigitVal[d] = n>>
    ELSE str_int(n \div 10) \o str_int(n % 10)

Rep(c, n) == [i \in 1..n |-> c]

truthy_str(o) == o # None /\ Get(o) # <<>>

truthy_int(o) == o # None /\ Get(o) # 0

\* __str__, lines 38-41: the first part of the rendering
str_head(e) ==
    LET result == <<"Error: ">> \o e.message
    IN  IF truthy_str(e.file)
        THEN result \o <<"\n">> \o Get(e.file) \o <<": ">> \o result
        ELSE result

\* __str__, line 46: if self.col_start (a stored col_start is always an int)
caret_if(e) == e.col_start # 0

str_pointer(e) ==
    Rep(" ", Len(str_int(e.line)) + 3 + e.col_start) \o <<"^">>
    \o (IF truthy_int(e.col_end) /\ Get(e.col_end) > e.col_start
        THEN Rep("~", Get(e.col_end) - e.col_start - 1) ELSE <<>>)

shl_error_str(e) ==
    LET result == str_head(e)
    IN  IF e.line # 0 /\ truthy_str(e.src_line)
        THEN result \o <<"\n">> \o str_int(e.line) \o <<" ", "|", " ">>
                    \o Get(e.src_line)
                    \o (IF caret_if(e)
                        THEN <<"\n">> \o str_pointer(e) \o <<"-- Here.">>
                        ELSE <<>>)
        ELSE result

(***************************************************************************)
(* The inputs of each specification.                                       *)
(***************************************************************************)
Strings(alphabet, n) == UNION {[1..k -> alphabet] : k \in 0..n}

Alphabet == {" ", "\n", "/", "=", ">", "\"", "1", ".", "a", "@", "U+00B2"}

AlphabetOps == {"!", "=", ">", "<", "1", "2"}

AlphabetWs == {" ", "\n", "\t", "/", "a"}

AlphabetStr == {"\"", "'", "a", "b", "c"}

AlphabetNum == {"0", "1", "2", "3", ".", "U+00B2"}

AlphabetIdent == {"i", "f", "n", "I", "F", "x", "_", "1", " "}

AlphabetReuse == {"'", "\n"}

AlphabetProgress == {"!", "=", ">", "/", "\n", "'", "@"}

\* the non-empty sequences of at most n elements of S
Calls(S, n) == UNION {[1..k -> S] : k \in 1..n}

Messages == {<<"Unterminated string.">>, <<"Unexpected character: '", "@", "'">>}

Files == {None, Some(<<>>), Some(<<"a.shl">>)}

SrcLines == {None, Some(<<>>), Some(<<"a", "b", "c">>)}

OptInts(n) == {None} \cup {Some(i) : i \in 0..n}

(***************************************************************************)
(* Init: a Scanner as __init__ leaves it (lines 93-98), nothing raised,    *)
(* and the texts the caller will scan.                                     *)
(***************************************************************************)
Constructed ==
    /\ pc = "idle"
    /\ source = <<>>
    /\ tokens = <<>>
    /\ current = 0
    /\ start = 0
    /\ line = 1
    /\ column = 1
    /\ args = None
    /\ exc = None
    /\ rendered = None
    /\ tokens_id = 0
    /\ results = <<>>
    /\ iterations = 0

Init == Constructed /\ input \in {<<s>> : s \in Strings(Alphabet, MaxLen)}

InitOps == Constructed /\ input \in {<<s>> : s \in Strings(AlphabetOps, MaxLenOps)}

InitWs == Constructed /\ input \in {<<s>> : s \in Strings(AlphabetWs, MaxLenWs)}

InitStr == Constructed /\ input \in {<<s>> : s \in Strings(AlphabetStr, MaxLenStr)}

InitNum == Constructed /\ input \in {<<s>> : s \in Strings(AlphabetNum, MaxLenNum)}

InitIdent == Constructed /\ input \in {<<s>> : s \in Strings(AlphabetIdent, MaxLenIdent)}

InitErr == Constructed /\ input = <<>>

InitReuse == Constructed /\ input \in Calls(Strings(AlphabetReuse, MaxLenReuse), MaxCalls)

InitProgress == Constructed /\ input \in {<<s>> : s \in Strings(AlphabetProgress, MaxLenProgress)}

(***************************************************************************)
(* scan_tokens.  Entering resets the object (lines 161-166); each          *)
(* iteration of the loop is one step (lines 168-170); leaving the loop     *)
(* appends EOF and returns (lines 172-173).  An exception leaves the       *)
(* object as it was when raised.                                           *)
(***************************************************************************)
\* A list is an object: the caller's result j shows the value val once the
\* list with identity id, which result j may be, has come to hold val.
aliased(rs, id, val) ==
    [j \in DOMAIN rs |-> IF rs[j].list = id THEN [rs[j] EXCEPT !.value = val] ELSE rs[j]]

\* an entry that empties the list it holds instead of binding a new one
scan_tokens_enter_clear ==
    /\ pc \in {"idle", "returned", "raised", "rendered"}
    /\ input # <<>>
    /\ source' = Head(input)
    /\ input' = Tail(input)
    /\ tokens' = <<>>
    /\ tokens_id' = tokens_id
    /\ results' = aliased(results, tokens_id, <<>>)
    /\ current' = 0
    /\ start' = 0
    /\ line' = 1
    /\ column' = 1
    /\ iterations' = 0
    /\ pc' = "scanning"
    /\ args' = None
    /\ exc' = None
    /\ rendered' = None

scan_tokens_enter ==
    /\ pc \in {"idle", "returned", "raised", "rendered"}
    /\ input # <<>>
    /\ source' = Head(input)
    /\ input' = Tail(input)
    /\ tokens' = <<>>
    /\ tokens_id' = tokens_id + 1
    /\ results' = results
    /\ current' = 0
    /\ start' = 0
    /\ line' = 1
    /\ column' = 1
    /\ iterations' = 0
    /\ pc' = "scanning"
    /\ args' = None
    /\ exc' = None
    /\ rendered' = None

scan_tokens_loop ==
    /\ pc = "scanning"
    /\ ~is_at_end(Self)
    /\ LET r == scan_token([Self EXCEPT !.start = current])
       IN  /\ tokens' = r.self.tokens
           /\ current' = r.self.current
           /\ start' = r.self.start
           /\ line' = r.self.line
           /\ column' = r.self.column
           /\ exc' = r.exc
           /\ args' = IF r.exc = None THEN args ELSE r.args
           /\ pc' = IF r.exc = None THEN "scanning" ELSE "raised"
           /\ results' = aliased(results, tokens_id, r.self.tokens)
    /\ iterations' = iterations + 1
    /\ UNCHANGED <<input, source, rendered, tokens_id>>

\* a return that forgets the EOF token
scan_tokens_return_no_eof ==
    /\ pc = "scanning"
    /\ is_at_end(Self)
    /\ pc' = "returned"
    /\ results' = Append(results, [list |-> tokens_id, value |-> tokens])
    /\ UNCHANGED <<input, source, tokens, current, start, line, column, args, exc, rendered,
                   tokens_id, iterations>>

scan_tokens_return ==
    /\ pc = "scanning"
    /\ is_at_end(Self)
    /\ tokens' = Append(tokens, eof_token(Self))
    /\ results' = Append(aliased(results, tokens_id, tokens'),
                         [list |-> tokens_id, value |-> tokens'])
    /\ pc' = "returned"
    /\ UNCHANGED <<input, source, current, start, line, column, args, exc, rendered,
                   tokens_id, iterations>>

\* str(e) of the SHLError that ended the call
render_error ==
    /\ pc = "raised"
    /\ Get(exc).type = "SHLError"
    /\ rendered' = Some(shl_error_str(Get(exc)))
    /\ pc' = "rendered"
    /\ UNCHANGED <<input, source, tokens, current, start, line, column, args, exc,
                   tokens_id, results, iterations>>

\* SHLError(message, file, line, col_start, col_end, src_line) called directly
new_error ==
    /\ pc = "idle"
    /\ \E message \in Messages, file \in Files, ln \in OptInts(MaxLine),
          col_start \in OptInts(MaxCol), col_end \in OptInts(MaxCol + 1),
          src_line \in SrcLines :
          /\ exc' = Some(SHLError(message, file, ln, col_start, col_end, src_line))
          /\ args' = CallArgs(message, file, ln, col_start, col_end, src_line)
    /\ pc' = "raised"
    /\ UNCHANGED <<input, source, tokens, current, start, line, column, rendered,
                   tokens_id, results, iterations>>

NextScan == scan_tokens_enter \/ scan_tokens_loop \/ scan_tokens_return

Next == NextScan \/ render_error

NextErr == new_error \/ render_error

Spec == Init /\ [][Next]_vars

SpecOps == InitOps /\ [][NextScan]_vars

SpecWs == InitWs /\ [][NextScan]_vars

SpecStr == InitStr /\ [][NextScan]_vars

SpecNum == InitNum /\ [][NextScan]_vars

SpecIdent == InitIdent /\ [][NextScan]_vars

SpecErr == InitErr /\ [][NextErr]_vars

SpecReuse == InitReuse /\ [][NextScan]_vars

\* scan_tokens is sequential code: a call that has been made runs on, one
\* iteration after the other, until it returns or raises.
SpecProgress == InitProgress /\ [][NextScan]_vars /\ WF_vars(NextScan)

(***************************************************************************)
(* scan_tokens as one call on a Scanner that was only just constructed:    *)
(* the fields of __init__ (lines 93-98), the reset of lines 161-166, the   *)
(* loop of lines 168-170 run to its end, and the return of lines 172-173   *)
(* or the exception that left the loop.                                    *)
(***************************************************************************)
RECURSIVE scan_tokens_from(_)
scan_tokens_from(s) ==
    IF is_at_end(s)
    THEN [kind |-> "returned", tokens |-> Append(s.tokens, eof_token(s)), exc |-> None]
    ELSE LET r == scan_token([s EXCEPT !.start = s.current])
         IN  IF r.exc = None
             THEN scan_tokens_from(r.self)
             ELSE [kind |-> "raised", tokens |-> <<>>, exc |-> r.exc]

fresh_scan_tokens(src) ==
    scan_tokens_from([source |-> src, tokens |-> <<>>, current |-> 0,
                      start |-> 0, line |-> 1, column |-> 1])

(***************************************************************************)
(* Helpers of the properties.                                              *)
(***************************************************************************)
Types(ts) == [i \in 1..Len(ts) |-> ts[i].type]

Last(s) == s[Len(s)]

\* C1: whenever scan_tokens has returned, the token list holds exactly one
\* EOF token, that token is the last element, its lexeme is empty and it
\* has no literal.
C1_ExactlyOneEofLast ==
    pc = "returned" =>
        /\ Len(tokens) >= 1
        /\ Last(tokens).type = "EOF"
        /\ Last(tokens).lexeme = <<>>
        /\ Last(tokens).literal = None
        /\ \A i \in 1..(Len(tokens) - 1) : tokens[i].type # "EOF"

C1_Witness ==
    /\ pc = "returned"
    /\ Len(source) = MaxLen
    /\ Len(tokens) = MaxLen + 1
    /\ Last(tokens).type = "EOF"

\* C2: every non-EOF token in the list has 0 <= col_start < col_end <=
\* len(source), and the slice source[col_start:col_end] is its lexeme.
C2_RoundTrip ==
    \A i \in 1..Len(tokens) :
        tokens[i].type # "EOF" =>
            /\ 0 <= tokens[i].col_start
            /\ tokens[i].col_start < tokens[i].col_end
            /\ tokens[i].col_end <= Len(source)
            /\ SubSeq(source, tokens[i].col_start + 1, tokens[i].col_end)
                  = tokens[i].lexeme

C2_Witness ==
    /\ pc = "returned"
    /\ \E i \in 1..Len(tokens) :
          /\ tokens[i].type # "EOF"
          /\ tokens[i].col_start > 0
          /\ tokens[i].col_end - tokens[i].col_start >= 2

\* The step has appended exactly one token, of the given kind, covering the
\* source offsets a (inclusive) to b (exclusive).
EmittedOne(kind, a, b) ==
    /\ Len(tokens') = Len(tokens) + 1
    /\ SubSeq(tokens', 1, Len(tokens)) = tokens
    /\ Last(tokens').type = kind
    /\ Last(tokens').col_start = a
    /\ Last(tokens').col_end = b
    /\ Last(tokens').lexeme = SubSeq(source, a + 1, b)

C3_TwoCharKind(c, n) ==
    CASE c = "!" /\ n = "=" -> "BANG_EQUAL"
      [] c = "=" /\ n = "=" -> "EQUAL_EQUAL"
      [] c = ">" /\ n = "=" -> "GREATER_EQUAL"
      [] c = "<" /\ n = "=" -> "LESS_EQUAL"
      [] c = "=" /\ n = ">" -> "ARROW"
      [] OTHER -> "none"

C3_OneCharKind(c) ==
    CASE c = "!" -> "BANG"
      [] c = "=" -> "EQUAL"
      [] c = ">" -> "GREATER"
      [] c = "<" -> "LESS"

C3_Step ==
    (/\ pc = "scanning"
     /\ current + 2 <= Len(source)
     /\ source[current + 1] \in {"!", "=", ">", "<"}
     /\ source[current + 2] \in {"=", ">"})
    => LET c == source[current + 1]
           n == source[current + 2]
       IN  /\ pc' = "scanning"
           /\ start' = current
           /\ IF C3_TwoCharKind(c, n) # "none"
              THEN /\ EmittedOne(C3_TwoCharKind(c, n), current, current + 2)
                   /\ current' = current + 2
              ELSE /\ EmittedOne(C3_OneCharKind(c), current, current + 1)
                   /\ current' = start' + 1

C3_Examples ==
    pc = "returned" =>
        /\ source = <<"1", ">", "2">>
              => Types(tokens) = <<"NUMBER", "GREATER", "NUMBER", "EOF">>
        /\ source = <<">", ">">> => Types(tokens) = <<"GREATER", "GREATER", "EOF">>
        /\ source = <<"!", "=">> => Types(tokens) = <<"BANG_EQUAL", "EOF">>
        /\ source = <<"=", "=">> => Types(tokens) = <<"EQUAL_EQUAL", "EOF">>
        /\ source = <<">", "=">> => Types(tokens) = <<"GREATER_EQUAL", "EOF">>
        /\ source = <<"<", "=">> => Types(tokens) = <<"LESS_EQUAL", "EOF">>
        /\ source = <<"=", ">">> => Types(tokens) = <<"ARROW", "EOF">>

\* C3: a scan_token call that starts at one of ! = > < followed by '=' or
\* '>' appends exactly one token: the two-character token over both
\* characters when the pair is != == >= <= or =>, and otherwise the
\* one-character token over the first character alone, with current left
\* at start + 1; "1>2" gives NUMBER GREATER NUMBER EOF and ">>" gives
\* GREATER GREATER EOF.
C3_OperatorDisambiguation == [][C3_Step]_vars /\ []C3_Examples

C3_Witness ==
    /\ pc = "scanning"
    /\ source = <<">", ">">>
    /\ start = 0
    /\ current = 1
    /\ Types(tokens) = <<"GREATER">>

Min(S) == CHOOSE x \in S : \A y \in S : x <= y

C4_Whitespace == {" ", "\t", "\n", "\r"}

\* s, from index i on, is whitespace and '//' comments only; a comment runs
\* to the next newline (which is then whitespace) or to the end of s.
RECURSIVE C4_OnlyWsAndComments(_, _)
C4_OnlyWsAndComments(s, i) ==
    IF i > Len(s) THEN TRUE
    ELSE IF s[i] \in C4_Whitespace THEN C4_OnlyWsAndComments(s, i + 1)
    ELSE IF s[i] = "/" /\ i + 1 <= Len(s) /\ s[i + 1] = "/"
    THEN LET nl == {j \in (i + 2)..Len(s) : s[j] = "\n"}
         IN  IF nl = {} THEN TRUE ELSE C4_OnlyWsAndComments(s, Min(nl))
    ELSE FALSE

\* C4: on a source made only of whitespace and '//' comments, scan_tokens
\* raises nothing, emits no token while scanning, and returns exactly one
\* token, the EOF token.
C4_WhitespaceAndCommentsGiveEof ==
    C4_OnlyWsAndComments(source, 1) =>
        /\ pc # "raised"
        /\ pc = "scanning" => tokens = <<>>
        /\ pc = "returned" => Types(tokens) = <<"EOF">>

C4_Witness ==
    /\ pc = "returned"
    /\ C4_OnlyWsAndComments(source, 1)
    /\ Len(source) = 4
    /\ source[1] = "/"
    /\ source[3] = "a"
    /\ source[4] = "\n"
    /\ Types(tokens) = <<"EOF">>

C5_Step ==
    (/\ pc = "scanning"
     /\ current < Len(source)
     /\ source[current + 1] \in {"\"", "'"})
    => LET q == source[current + 1]
           closers == {j \in (current + 2)..Len(source) : source[j] = q}
       IN  IF closers # {}
           THEN /\ pc' = "scanning"
                /\ EmittedOne("STRING", current, Min(closers))
                /\ Last(tokens').literal
                      = Some(SubSeq(source, current + 2, Min(closers) - 1))
                /\ Last(tokens').lexeme[1] = q
                /\ Last(Last(tokens').lexeme) = q
                /\ current' = Min(closers)
           ELSE /\ pc' = "raised"
                /\ tokens' = tokens
                /\ Get(exc').type = "SHLError"
                /\ Get(exc').message = <<"Unterminated string.">>

C5_Examples ==
    /\ (pc = "returned" /\ source = <<"'", "a", "b", "c", "'">>)
          => /\ Types(tokens) = <<"STRING", "EOF">>
             /\ tokens[1].literal = Some(<<"a", "b", "c">>)
    /\ (pc = "returned" /\ source = <<"\"", "a", "b", "c", "\"">>)
          => /\ Types(tokens) = <<"STRING", "EOF">>
             /\ tokens[1].literal = Some(<<"a", "b", "c">>)
    /\ source = <<"'", "a", "b", "c", "\"">>
          => /\ pc # "returned"
             /\ pc = "raised" => Get(exc).message = <<"Unterminated string.">>

\* C5: a scan_token call that starts at a quote character q appends one
\* STRING token that ends at the next q, whatever other quote character
\* lies between; its literal is the text strictly between the two quotes
\* and its lexeme has both; with no later q the call raises the SHLError
\* "Unterminated string." and appends nothing.
C5_StringLiteral == [][C5_Step]_vars /\ []C5_Examples

C5_Witness ==
    /\ pc = "scanning"
    /\ tokens # <<>>
    /\ Last(tokens).type = "STRING"
    /\ Last(tokens).col_end = current
    /\ \E k \in 1..Len(Get(Last(tokens).literal)) :
          /\ Get(Last(tokens).literal)[k] \in {"\"", "'"}
          /\ Get(Last(tokens).literal)[k] # Last(tokens).lexeme[1]

\* The index of the last character of the maximal run of characters of
\* class cls that starts at index i of s (i - 1 when there is none).
RECURSIVE RunEnd(_, _, _)
RunEnd(s, i, cls) ==
    IF i <= Len(s) /\ s[i] \in cls THEN RunEnd(s, i + 1, cls) ELSE i - 1

\* The characters str.isdigit() accepts; float() takes the decimal ones only.
C6_Digits == DecimalDigits \cup {"U+00B2"}

C6_Step ==
    /\ (/\ pc = "scanning"
        /\ current < Len(source)
        /\ source[current + 1] \in C6_Digits)
       => LET e1 == RunEnd(source, current + 1, C6_Digits)
              frac == /\ e1 + 2 <= Len(source)
                      /\ source[e1 + 1] = "."
                      /\ source[e1 + 2] \in C6_Digits
              e == IF frac THEN RunEnd(source, e1 + 2, C6_Digits) ELSE e1
              decimal == \A i \in (current + 1)..e :
                            source[i] \in DecimalDigits \cup {"."}
          IN  IF decimal
              THEN /\ pc' = "scanning"
                   /\ EmittedOne("NUMBER", current, e)
                   /\ current' = e
              ELSE /\ pc' = "raised"
                   /\ tokens' = tokens
    /\ (/\ pc = "scanning"
        /\ current < Len(source)
        /\ source[current + 1] = ".")
       => /\ pc' = "scanning"
          /\ EmittedOne("DOT", current, current + 1)
          /\ current' = current + 1

C6_Examples ==
    pc = "returned" =>
        /\ source = <<"3", ".">>
              => /\ Types(tokens) = <<"NUMBER", "DOT", "EOF">>
                 /\ tokens[1].literal = Some([mant |-> 3, exp |-> 0])
        /\ source = <<"1", ".", "2", ".", "3">>
              => /\ Types(tokens) = <<"NUMBER", "DOT", "NUMBER", "EOF">>
                 /\ tokens[1].lexeme = <<"1", ".", "2">>
                 /\ tokens[1].literal = Some([mant |-> 12, exp |-> 1])
                 /\ tokens[3].lexeme = <<"3">>
                 /\ tokens[3].literal = Some([mant |-> 3, exp |-> 0])

\* C6: a scan_token call that starts at a digit and appends a NUMBER token
\* gives it as lexeme the maximal run of digits, extended by '.' and the
\* maximal run of digits after it only when the character right after the
\* '.' is a digit (no token is appended when float() rejects that text); a
\* '.' left unconsumed is the next token, DOT; "3." gives NUMBER DOT EOF
\* and "1.2.3" gives NUMBER 1.2, DOT, NUMBER 3, EOF.
C6_NumberLexeme == [][C6_Step]_vars /\ []C6_Examples

C6_Witness ==
    /\ pc = "returned"
    /\ source = <<"1", ".", "2", ".", "3">>
    /\ Types(tokens) = <<"NUMBER", "DOT", "NUMBER", "EOF">>
    /\ tokens[1].lexeme = <<"1", ".", "2">>

C7_Fold(text) ==
    [i \in 1..Len(text) |->
        IF text[i] \in DOMAIN LowerMap THEN LowerMap[text[i]] ELSE text[i]]

C7_SeventeenKeywords ==
    {<<"a", "n", "d">>, <<"o", "r">>, <<"i", "f">>, <<"e", "l", "s", "e">>,
     <<"t", "r", "u", "e">>, <<"f", "a", "l", "s", "e">>, <<"f", "o", "r">>,
     <<"w", "h", "i", "l", "e">>, <<"f", "n">>,
     <<"r", "e", "t", "u", "r", "n">>, <<"v", "a", "r">>,
     <<"i", "m", "p", "o", "r", "t">>, <<"i", "n">>,
     <<"c", "l", "a", "s", "s">>, <<"n", "i", "l">>,
     <<"d", "i", "s", "p", "l", "a", "y">>, <<"r", "e", "a", "d">>}

C7_Step ==
    (/\ pc = "scanning"
     /\ current < Len(source)
     /\ source[current + 1] \in LowerLetters \cup UpperLetters \cup {"_"})
    => LET e == RunEnd(source, current + 1,
                       LowerLetters \cup UpperLetters \cup DecimalDigits \cup {"_"})
           k == C7_Fold(SubSeq(source, current + 1, e))
       IN  /\ pc' = "scanning"
           /\ EmittedOne(IF k \in C7_SeventeenKeywords THEN keywords[k]
                         ELSE "IDENTIFIER",
                         current, e)
           /\ Last(tokens').literal = None
           /\ current' = e

C7_Examples ==
    pc = "returned" =>
        /\ source = <<"I", "F">> => Types(tokens) = <<"IF", "EOF">>
        /\ source = <<"I", "f">> => Types(tokens) = <<"IF", "EOF">>
        /\ source = <<"i", "f">> => Types(tokens) = <<"IF", "EOF">>
        /\ source = <<"i", "n">> => Types(tokens) = <<"IN", "EOF">>
        /\ source = <<"F", "n">> => Types(tokens) = <<"FN", "EOF">>
        /\ source = <<"i", "f", "x">> => Types(tokens) = <<"IDENTIFIER", "EOF">>

\* C7: a scan_token call that starts at a letter or '_' appends exactly one
\* token over the maximal run of letters, digits and '_': the keyword's
\* kind when the run, lower-cased, is one of the 17 keywords, otherwise
\* IDENTIFIER, with no literal; "IF", "If" and "if" give IF and "ifx" gives
\* one IDENTIFIER.
C7_IdentifierOrKeyword ==
    /\ [][C7_Step]_vars
    /\ []C7_Examples
    /\ [](DOMAIN keywords = C7_SeventeenKeywords)

C7_Witness ==
    /\ pc = "returned"
    /\ source = <<"I", "f">>
    /\ Types(tokens) = <<"IF", "EOF">>
    /\ tokens[1].lexeme = <<"I", "f">>

(***************************************************************************)
(* Helpers of the properties of a rendering.                               *)
(***************************************************************************)
Contains(r, sub) ==
    \E i \in 1..(Len(r) - Len(sub) + 1) : SubSeq(r, i, i + Len(sub) - 1) = sub

Occurrences(r, sub) ==
    Cardinality({i \in 1..(Len(r) - Len(sub) + 1) :
                    SubSeq(r, i, i + Len(sub) - 1) = sub})

\* The lines of r: its parts between "\n" atoms.
RECURSIVE SplitLines(_)
SplitLines(r) ==
    LET nl == {i \in 1..Len(r) : r[i] = "\n"}
    IN  IF nl = {} THEN <<r>>
        ELSE <<SubSeq(r, 1, Min(nl) - 1)>>
                \o SplitLines(SubSeq(r, Min(nl) + 1, Len(r)))

FirstLine(s) == SplitLines(s)[1]

IsCaretLine(l) ==
    \E p \in 1..Len(l) : l[p] = "^" /\ \A k \in 1..(p - 1) : l[k] = " "

CaretAt(l, p) == p <= Len(l) /\ l[p] = "^" /\ \A k \in 1..(p - 1) : l[k] = " "

\* C8: scanning a source that starts with "@" ends in an SHLError, and its
\* rendering contains "Unexpected character: '@'", the line "1 | " followed
\* by the first source line, and right after it a caret line whose caret
\* marks column 1: it stands under the first character of the source line,
\* or one place to its right, where __str__ puts the caret of col_start 1.
C8_UnexpectedCharRendering ==
    (source # <<>> /\ source[1] = "@") =>
        /\ pc # "returned"
        /\ pc \in {"raised", "rendered"} => Get(exc).type = "SHLError"
        /\ pc = "rendered" =>
              /\ Contains(Get(rendered), <<"Unexpected character: '", "@", "'">>)
              /\ \E i \in 1..(Len(SplitLines(Get(rendered))) - 1) :
                    /\ SplitLines(Get(rendered))[i]
                          = <<"1", " ", "|", " ">> \o FirstLine(source)
                    /\ \/ CaretAt(SplitLines(Get(rendered))[i + 1], 5)
                       \/ CaretAt(SplitLines(Get(rendered))[i + 1], 6)

\* C9: a rendering starts with the single line "Error: {message}" when no
\* file name was given and with "{file}: Error: {message}" when one was,
\* and the message occurs exactly once in it.
C9_FirstLineAndMessageOnce ==
    pc = "rendered" =>
        /\ SplitLines(Get(rendered))[1]
              = (IF truthy_str(args.file) THEN Get(args.file) \o <<": ">> ELSE <<>>)
                \o <<"Error: ">> \o args.message
        /\ Occurrences(Get(rendered), args.message) = 1

\* C10: when SHLError was called with a line (1 or more), a non-empty
\* src_line and a col_start (0 included), its rendering contains the line
\* "{line} | {src_line}" and right after it a caret line.
C10_CaretWheneverColStartSupplied ==
    (/\ pc = "rendered"
     /\ args.line # None /\ Get(args.line) >= 1
     /\ args.src_line # None /\ Get(args.src_line) # <<>>
     /\ args.col_start # None)
    => \E i \in 1..(Len(SplitLines(Get(rendered))) - 1) :
          /\ SplitLines(Get(rendered))[i]
                = str_int(Get(args.line)) \o <<" ", "|", " ">> \o Get(args.src_line)
          /\ IsCaretLine(SplitLines(Get(rendered))[i + 1])


(***************************************************************************)
(* C11.  One Scanner, several calls.                                       *)
(***************************************************************************)
\* what the call that has just ended gave its caller
Outcome ==
    IF pc = "returned"
    THEN [kind |-> "returned", tokens |-> tokens, exc |-> None]
    ELSE [kind |-> "raised", tokens |-> <<>>, exc |-> exc]

C11_SameAsFresh ==
    pc \in {"returned", "raised"} => Outcome = fresh_scan_tokens(source)

C11_EarlierListsKept ==
    /\ Len(results') >= Len(results)
    /\ \A j \in 1..Len(results) : results'[j].value = results[j].value

\* C11: whatever calls came before on the same Scanner, returned or failed,
\* a call of scan_tokens ends with the token sequence or the exception that
\* the same source gives on a Scanner just constructed, and no step of a
\* later call changes a list that an earlier call returned.
C11_ReuseAfterAnyHistory ==
    []C11_SameAsFresh /\ [][C11_EarlierListsKept]_vars

\* the third call has returned a STRING and EOF, one of the two calls
\* before it failed and the different list of the other is still held
C11_Witness ==
    /\ pc = "returned"
    /\ tokens_id = 3
    /\ Len(results) = 2
    /\ Len(tokens) >= 2
    /\ results[1].value # tokens

(***************************************************************************)
(* C12.  Failing at the first lexical fault.                               *)
(***************************************************************************)
\* the characters that begin something: whitespace, the punctuation and
\* operator table (with '/', which also begins a comment), the two quotes,
\* the ASCII digits, the ASCII letters and '_'
C12_Begins ==
    {" ", "\t", "\n", "\r", "\f"} \cup DOMAIN single_char_tokens \cup {"\"", "'"}
    \cup {"0", "1", "2", "3", "4", "5", "6", "7", "8", "9"}
    \cup LowerLetters \cup UpperLetters \cup {"_"}

C12_IsScanError(e, message) ==
    /\ e # None
    /\ Get(e).type = "SHLError"
    /\ Get(e).message = message

\* One iteration of the loop, which starts at the character c.  A character
\* that begins nothing is the fault "Unexpected character"; a quote with no
\* same quote after it is the fault "Unterminated string."; anything else is
\* scanned without a failure.  A fault ends the call with its ScanError,
\* having consumed nothing beyond the fault and appended nothing.
C12_Step ==
    (pc = "scanning" /\ current < Len(source))
    => LET c == source[current + 1]
           closers == {j \in (current + 2)..Len(source) : source[j] = c}
       IN  IF c \notin C12_Begins
           THEN /\ pc' = "raised"
                /\ C12_IsScanError(exc', <<"Unexpected character: '", c, "'">>)
                /\ current' = current + 1
                /\ tokens' = tokens
                /\ results' = results
           ELSE IF c \in {"\"", "'"} /\ closers = {}
           THEN /\ pc' = "raised"
                /\ C12_IsScanError(exc', <<"Unterminated string.">>)
                /\ current' = Len(source)
                /\ tokens' = tokens
                /\ results' = results
           ELSE pc' = "scanning"

\* once the call has failed, the scan does not go on: nothing is consumed,
\* appended or returned until scan_tokens is called again
C12_AfterFailure ==
    pc \in {"raised", "rendered"}
    => \/ /\ pc' \in {"raised", "rendered"}
          /\ current' = current
          /\ tokens' = tokens
          /\ results' = results
       \/ /\ pc' = "scanning"
          /\ iterations' = 0
          /\ results' = results

\* C12: a source with a lexical fault makes scan_tokens fail with the
\* ScanError of the leftmost fault (every iteration before it succeeded);
\* no list is returned, no character after the fault is consumed and no
\* token is appended once the fault is detected.
C12_FailFast == [][C12_Step /\ C12_AfterFailure]_vars

(***************************************************************************)
(* C13.  The failures of scan_tokens.                                      *)
(***************************************************************************)
C13_Failure ==
    pc \in {"raised", "rendered"}
    => /\ Get(exc).type = "SHLError"
       /\ \/ Get(exc).message = <<"Unterminated string.">>
          \/ /\ Len(Get(exc).message) = 3
             /\ Get(exc).message[1] = "Unexpected character: '"
             /\ Get(exc).message[3] = "'"

\* an iteration that starts at a character which is not whitespace, not in
\* the punctuation and operator table, not a quote, not an ASCII digit and
\* not an ASCII letter or '_'
C13_OtherCharacter ==
    (/\ pc = "scanning"
     /\ current < Len(source)
     /\ source[current + 1] \notin C12_Begins)
    => /\ pc' = "raised"
       /\ Get(exc').type = "SHLError"
       /\ Get(exc').message = <<"Unexpected character: '", source[current + 1], "'">>

\* C13: a call of scan_tokens that fails fails with a ScanError whose
\* message is "Unterminated string." or "Unexpected character: '{c}'", and
\* a character outside whitespace, the table, the quotes, the ASCII digits,
\* the ASCII letters and '_' always gives the second one.
C13_EveryFailureIsScanError == []C13_Failure /\ [][C13_OtherCharacter]_vars

(***************************************************************************)
(* C14.  Lines.                                                            *)
(***************************************************************************)
\* the number of newline characters in the first n characters of s
C14_Newlines(s, n) == Cardinality({j \in 1..n : s[j] = "\n"})

C14_TokenLines ==
    \A i \in 1..Len(tokens) :
        tokens[i].line = 1 + C14_Newlines(source,
                                IF tokens[i].type = "EOF" THEN current ELSE tokens[i].col_end)

C14_ErrorLine ==
    (pc \in {"raised", "rendered"} /\ Get(exc).type = "SHLError")
    => Get(exc).line = 1 + C14_Newlines(source, current)

C14_Counter ==
    pc \in {"scanning", "returned"} => line = 1 + C14_Newlines(source, current)

\* an iteration that starts at '//' stops in front of the next newline, or
\* at the end of the source, and counts no line
C14_Comment ==
    (/\ pc = "scanning"
     /\ current + 2 <= Len(source)
     /\ source[current + 1] = "/"
     /\ source[current + 2] = "/")
    => LET nl == {j \in (current + 3)..Len(source) : source[j] = "\n"}
       IN  /\ current' = IF nl = {} THEN Len(source) ELSE Min(nl) - 1
           /\ line' = line
           /\ tokens' = tokens
           /\ pc' = "scanning"

\* C14: the line of every token and of every ScanError is 1 plus the number
\* of newline characters consumed before it in the same scan, in whitespace
\* or inside a string literal alike (for a token other than EOF, those of
\* source[0:col_end]); a '//' comment stops before its newline, which the
\* whitespace rule then counts.
C14_LineTracking ==
    [](C14_TokenLines /\ C14_ErrorLine /\ C14_Counter) /\ [][C14_Comment]_vars

\* a string literal holding a newline was emitted with line 2 and the scan
\* then failed with a ScanError of line 2
C14_Witness ==
    /\ pc = "raised"
    /\ Get(exc).type = "SHLError"
    /\ Get(exc).line = 2
    /\ Len(tokens) = 1
    /\ tokens[1].type = "STRING"
    /\ tokens[1].line = 2

(***************************************************************************)
(* C15.  Columns.                                                          *)
(***************************************************************************)
\* the number of characters among the first n of s that come after the
\* last newline among them
C15_SinceNewline(s, n) ==
    LET nl == {j \in 1..n : s[j] = "\n"}
    IN  IF nl = {} THEN n ELSE n - (CHOOSE j \in nl : \A k \in nl : k <= j)

C15_Counter ==
    pc \in {"scanning", "returned"} => column = 1 + C15_SinceNewline(source, current)

C15_Eof ==
    pc = "returned"
    => /\ Last(tokens).col_start = 1 + C15_SinceNewline(source, current)
       /\ Last(tokens).col_end = 1 + C15_SinceNewline(source, current)

C15_Error ==
    (pc \in {"raised", "rendered"} /\ Get(exc).type = "SHLError")
    => IF Get(exc).message = <<"Unterminated string.">>
       THEN Get(exc).col_start = 1 + C15_SinceNewline(source, current)
       ELSE Get(exc).col_start = 1 + C15_SinceNewline(source, current - 1)

\* C15: at every token boundary and at the end of the input the column
\* counter is 1 plus the number of characters consumed since the most
\* recent newline, consumed as whitespace or inside a string literal; the
\* EOF token's col_start and col_end and the col_start of "Unterminated
\* string." are that value, and the col_start of "Unexpected character" is
\* the 1-based column of the character.
C15_ColumnTracking == C15_Counter /\ C15_Eof /\ C15_Error

(***************************************************************************)
(* C16.  Progress and termination.                                         *)
(***************************************************************************)
\* One iteration of the loop: start becomes the old current, which is not
\* before the old start, and scan_token leaves current after it and within
\* the source.  When the operator branch has looked at a second character
\* that makes no pair, it gives back that character only.
C16_Step ==
    (pc = "scanning" /\ current < Len(source))
    => /\ start' = current
       /\ start' >= start
       /\ current' > start'
       /\ current' <= Len(source)
       /\ iterations' = iterations + 1
       /\ (/\ source[current + 1] \in {"!", "=", ">", "<"}
           /\ current + 2 <= Len(source)
           /\ source[current + 2] \in {"=", ">"}
           /\ C3_TwoCharKind(source[current + 1], source[current + 2]) = "none")
          => current' = start' + 1

C16_Bound ==
    /\ start <= current
    /\ current <= Len(source)
    /\ iterations <= Len(source)

C16_Terminates == (pc = "scanning") ~> (pc \in {"returned", "raised"})

\* C16: every iteration of the loop of scan_tokens leaves current strictly
\* after start (an operator's rollback gives back one character and stops
\* after start), start never decreases, and so every call returns or fails
\* after at most len(source) iterations.
C16_ProgressAndTermination ==
    [][C16_Step]_vars /\ []C16_Bound /\ C16_Terminates

\* "!>" was scanned in two iterations, the first of which rolled back
C16_Witness ==
    /\ pc = "returned"
    /\ Len(source) >= 2
    /\ iterations = Len(source)
    /\ tokens[1].type = "BANG"
    /\ tokens[2].type = "GREATER"
=============================================================================
